---------------------------- MODULE Spec2Model ----------------------------
(***************************************************************************)
(* Leaderboard ranking: Offline::heapRank, Offline::quickSelectRank,       *)
(* Online::replaceMin, Online::rankIncoming (Leaderboard.cpp) and          *)
(* VectorPlayerStream (PlayerStream.cpp).                                  *)
(*                                                                         *)
(* A Player is a record [name_, level_].  C++ vectors are TLA+ sequences;  *)
(* the C++ index i is the TLA+ index i + 1.                                *)
(***************************************************************************)
EXTENDS Integers, Sequences, FiniteSets, Bags, TLC

VARIABLES
    pc,                 \* where the running call stands
    players,            \* Offline: the caller's vector, reordered in place
    input,              \* Offline: the vector as it was handed in (history)
    heapTop,            \* Offline: [done, top]: has heapRank returned, and its result.top_
    quickTop,           \* Offline: [done, top]: the same for quickSelectRank
    players_,           \* VectorPlayerStream::players_
    currIndex,          \* VectorPlayerStream::currIndex
    lastCall,           \* outcome of the latest nextPlayer(): [kind, player]
    reporting_interval, \* Online::rankIncoming parameter
    count,              \* Online::rankIncoming local
    topReportPlayers,   \* Online::rankIncoming local (the window)
    cutoffs_,           \* result.cutoffs_, a function from player counts to levels
    top_,               \* result.top_ of rankIncoming (empty until it returns)
    range,              \* replaceMin: the vector slice [first, last)
    oldRange,           \* replaceMin: the slice before the call (history)
    target              \* replaceMin: the Player handed in

vars == << pc, players, input, heapTop, quickTop, players_, currIndex, lastCall,
           reporting_interval, count, topReportPlayers, cutoffs_, top_,
           range, oldRange, target >>

offlineVars == << players, input, heapTop, quickTop >>
streamVars  == << players_, currIndex, lastCall >>
onlineVars  == << reporting_interval, count, topReportPlayers, cutoffs_, top_ >>
heapVars    == << range, oldRange, target >>

---------------------------------------------------------------------------
(* Bounds of the model                                                     *)

MaxLevel    == 3   \* levels of streamed / heap players are 1..MaxLevel
MaxStream   == 4   \* longest stream handed to rankIncoming
MaxInterval == 3   \* largest reporting_interval
MaxHeap     == 6   \* largest range handed to replaceMin
MaxPlayers  == 40  \* largest vector handed to the offline rankers
MaxModulus  == 41  \* offline levels are 1..m for m up to MaxModulus
MaxStride   == 5   \* offline levels step by -MaxStride..MaxStride from player to player

---------------------------------------------------------------------------
(* Player and its comparison operators (Player.hpp)                        *)

Player(name, level) == [name_ |-> name, level_ |-> level]

\* Player::operator< : by level, ties broken by name.
PlayerLess(a, b) ==
    \/ a.level_ < b.level_
    \/ a.level_ = b.level_ /\ a.name_ < b.name_

\* Player::operator>
PlayerGreater(a, b) == PlayerLess(b, a)

\* The comparator handed to an STL call: std::greater<>() or the default std::less.
Comp(greater, a, b) == IF greater THEN PlayerGreater(a, b) ELSE PlayerLess(a, b)

\* A default-constructed Player, standing where no Player has been stored yet.
NoPlayer == Player(0, 0)

Swap(s, i, j) == [s EXCEPT ![i] = s[j], ![j] = s[i]]

\* Names are given by arrival position, counting up or counting down, so that
\* equal levels are met in both name orders.
Named(levels, ascending) ==
    [i \in 1..Len(levels) |->
        Player(IF ascending THEN i ELSE Len(levels) + 1 - i, levels[i])]

RECURSIVE SeqsUpTo(_, _)
SeqsUpTo(S, n) ==
    IF n = 0 THEN { << >> }
    ELSE LET shorter == SeqsUpTo(S, n - 1)
         IN  shorter \cup { Append(s, x) : s \in { t \in shorter : Len(t) = n - 1 }, x \in S }

LevelsOf(s) == [i \in 1..Len(s) |-> s[i].level_]

RECURSIVE BagOfSeq(_)
BagOfSeq(s) ==
    IF s = << >> THEN EmptyBag
    ELSE BagOfSeq(Tail(s)) (+) SetToBag({Head(s)})

---------------------------------------------------------------------------
(* The STL heap and sort algorithms, on the first n elements of s.         *)
(* 0-based heap position i is the sequence index i + 1.  The standard      *)
(* fixes what make_heap and pop_heap establish (a heap under comp), not    *)
(* the arrangement; the textbook sift-down construction is modelled.       *)

\* Sift the element at 0-based position i down the heap s[1..n] ordered by
\* comp: afterwards comp(parent, child) holds for no child on its path.
RECURSIVE SiftDown(_, _, _, _)
SiftDown(s, i, n, greater) ==
    LET l == 2 * i + 1
        r == 2 * i + 2
        a == IF l < n /\ Comp(greater, s[i + 1], s[l + 1]) THEN l ELSE i
        b == IF r < n /\ Comp(greater, s[a + 1], s[r + 1]) THEN r ELSE a
    IN  IF b = i THEN s ELSE SiftDown(Swap(s, i + 1, b + 1), b, n, greater)

RECURSIVE HeapifyFrom(_, _, _, _)
HeapifyFrom(s, i, n, greater) ==
    IF i < 0 \/ Len(s) < 2 THEN s
    ELSE HeapifyFrom(SiftDown(s, i, n, greater), i - 1, n, greater)

\* std::make_heap(first, first + n, comp): sift down every parent, last first
\* (HeapifyFrom; a range of fewer than two elements is a heap as it stands).
make_heap(s, n, greater) == HeapifyFrom(s, (n \div 2) - 1, n, greater)

\* std::pop_heap(first, first + n, comp): the top goes to position n - 1 and
\* [first, first + n - 1) is a heap again.
pop_heap(s, n, greater) ==
    IF n <= 1 THEN s ELSE SiftDown(Swap(s, 1, n), 0, n - 1, greater)

RECURSIVE InsertSorted(_, _)
InsertSorted(s, p) ==
    IF s = << >> THEN << p >>
    ELSE IF PlayerLess(p, Head(s)) THEN << p >> \o s
    ELSE << Head(s) >> \o InsertSorted(Tail(s), p)

\* std::sort(first, last) with Player::operator<
RECURSIVE sort(_)
sort(s) == IF s = << >> THEN << >> ELSE InsertSorted(sort(Tail(s)), Head(s))

\* Is s[1..Len(s)] a min-heap: no element is smaller than its parent (i - 1) / 2.
IsMinHeap(s) ==
    \A i \in 1..(Len(s) - 1) : ~PlayerLess(s[i + 1], s[((i - 1) \div 2) + 1])

---------------------------------------------------------------------------
(* Online::replaceMin                                                      *)

\* Variant of replaceMinLoop: the right child is compared with the parent, not
\* with the smaller of parent and left child.
RECURSIVE replaceMinLoopWrongChild(_, _)
replaceMinLoopWrongChild(s, index) ==
    LET size  == Len(s)
        child == index * 2 + 1
        left  == IF child < size /\ PlayerLess(s[child + 1], s[index + 1])
                 THEN child ELSE index
        smallerChild ==
                 IF child + 1 < size /\ PlayerLess(s[child + 2], s[index + 1])
                 THEN child + 1 ELSE left
    IN  IF smallerChild # index
        THEN replaceMinLoopWrongChild(Swap(s, index + 1, smallerChild + 1), smallerChild)
        ELSE s

\* The while (true) loop of replaceMin, from position index.
RECURSIVE replaceMinLoop(_, _)
replaceMinLoop(s, index) ==
    LET size  == Len(s)
        child == index * 2 + 1
        left  == IF child < size /\ PlayerLess(s[child + 1], s[index + 1])
                 THEN child ELSE index
        smallerChild ==
                 IF child + 1 < size /\ PlayerLess(s[child + 2], s[left + 1])
                 THEN child + 1 ELSE left
    IN  IF smallerChild # index
        THEN replaceMinLoop(Swap(s, index + 1, smallerChild + 1), smallerChild)
        ELSE s

\* Variant of replaceMin: the root is overwritten and nothing is sifted down.
replaceMinNoSift(s, t) == [s EXCEPT ![1] = t]

\* replaceMin(first, last, target): *first = std::move(target), then the loop.
\* Dereferencing first on an empty range is outside the contract; callers pass
\* a non-empty range.
replaceMin(s, t) == replaceMinLoop([s EXCEPT ![1] = t], 0)

---------------------------------------------------------------------------
(* Offline::heapRank                                                       *)

\* std::floor(0.1 * n) stored in an int.  The double 0.1 lies just above 1/10,
\* so for the sizes met here the product never falls below an exact tenth and
\* the floor is that of n / 10.
TopTenth(n) == n \div 10

\* Variant of PopLoop: every pop_heap runs over the whole vector, the "- i" lost.
RECURSIVE PopLoopFullRange(_, _, _)
PopLoopFullRange(s, i, topTen) ==
    IF i < topTen THEN PopLoopFullRange(pop_heap(s, Len(s), FALSE), i + 1, topTen) ELSE s

\* for (i = 0; i < topTen; ++i) pop_heap(players.begin(), players.end() - i)
RECURSIVE PopLoop(_, _, _)
PopLoop(s, i, topTen) ==
    IF i < topTen THEN PopLoop(pop_heap(s, Len(s) - i, FALSE), i + 1, topTen) ELSE s

\* heapRank(players): the reordered vector and result.top_.
heapRank(s) ==
    LET topTen == TopTenth(Len(s))
        heaped == make_heap(s, Len(s), FALSE)
        popped == PopLoop(heaped, 0, topTen)
    IN  [players |-> popped,
         top     |-> sort(SubSeq(popped, Len(popped) - topTen + 1, Len(popped)))]

---------------------------------------------------------------------------
(* Offline::partition, quickSort, quickSelect, quickSelectRank             *)
(* low, high, k and pivot are the 0-based C++ indices.                     *)

\* for (i = lower; i < high; i++) of partition, x being the pivot Player.
RECURSIVE PartitionLoop(_, _, _, _, _)
PartitionLoop(s, i, lower, high, x) ==
    IF i < high
    THEN IF s[i + 1].level_ <= x.level_
         THEN PartitionLoop(Swap(s, lower + 1, i + 1), i + 1, lower + 1, high, x)
         ELSE PartitionLoop(s, i + 1, lower, high, x)
    ELSE [players |-> Swap(s, lower + 1, high + 1), pivot |-> lower]

\* partition(players, low, high): the reordered vector and the returned index.
partition(s, low, high) == PartitionLoop(s, low, low, high, s[high + 1])

\* Variant of quickSort: the right part [pivot + 1, high] is never sorted.
RECURSIVE quickSortLeftOnly(_, _, _)
quickSortLeftOnly(s, low, high) ==
    IF low < high
    THEN LET p == partition(s, low, high)
         IN  quickSortLeftOnly(p.players, low, p.pivot - 1)
    ELSE s

RECURSIVE quickSort(_, _, _)
quickSort(s, low, high) ==
    IF low < high
    THEN LET p == partition(s, low, high)
         IN  quickSort(quickSort(p.players, low, p.pivot - 1), p.pivot + 1, high)
    ELSE s

\* Variant of quickSelect: the test pivot < k turned around.
RECURSIVE quickSelectWrongSide(_, _, _, _)
quickSelectWrongSide(s, low, high, k) ==
    IF low < high
    THEN LET p == partition(s, low, high)
         IN  IF p.pivot = k THEN p.players
             ELSE IF p.pivot > k THEN quickSelectWrongSide(p.players, p.pivot + 1, high, k)
             ELSE quickSelectWrongSide(p.players, low, p.pivot - 1, k)
    ELSE s

RECURSIVE quickSelect(_, _, _, _)
quickSelect(s, low, high, k) ==
    IF low < high
    THEN LET p == partition(s, low, high)
         IN  IF p.pivot = k THEN p.players
             ELSE IF p.pivot < k THEN quickSelect(p.players, p.pivot + 1, high, k)
             ELSE quickSelect(p.players, low, p.pivot - 1, k)
    ELSE s

\* quickSelectRank(players): the reordered vector and result.top_.  On an empty
\* vector players.size() - 1 reaches the int parameter high as -1.
quickSelectRank(s) ==
    LET topTen   == Len(s) - TopTenth(Len(s))
        selected == quickSelect(s, 0, Len(s) - 1, topTen)
        sorted   == quickSort(selected, topTen, Len(s) - 1)
    IN  [players |-> sorted, top |-> SubSeq(sorted, topTen + 1, Len(sorted))]

---------------------------------------------------------------------------
(* VectorPlayerStream                                                      *)

\* Variant of remaining: one player too few is reported.
remainingOffByOne == (Len(players_) - currIndex - 1) % (2 ^ 30)

\* remaining(): players_.size() - currIndex in size_t arithmetic.  The wrap of
\* the unsigned subtraction is kept (modulo 2^30 here, the model's integers
\* being 32 bits wide).
remaining == (Len(players_) - currIndex) % (2 ^ 30)

\* nextPlayer(): throws when currIndex >= players_.size(), else returns
\* players_[currIndex++].
nextPlayerThrows == currIndex >= Len(players_)
nextPlayerValue  == players_[currIndex + 1]

\* Variant of nextPlayerIndex: currIndex is advanced before the bounds test.
nextPlayerIndexNoCheck == currIndex + 1

nextPlayerIndex  == IF nextPlayerThrows THEN currIndex ELSE currIndex + 1

NoCall      == [kind |-> "none", player |-> NoPlayer]
Thrown      == [kind |-> "error", player |-> NoPlayer]
Returned(p) == [kind |-> "player", player |-> p]

---------------------------------------------------------------------------
(* Online::rankIncoming                                                    *)

\* result.cutoffs_[k] = v
PutCutoff(m, k, v) ==
    [x \in (DOMAIN m) \cup {k} |-> IF x = k THEN v ELSE m[x]]

\* Variant of Admit: make_heap without std::greater, a max-heap.
AdmitMaxHeap(window, currPlayer) ==
    IF Len(window) < reporting_interval
    THEN LET pushed == Append(window, currPlayer)
         IN  make_heap(pushed, Len(pushed), FALSE)
    ELSE IF PlayerGreater(currPlayer, window[1])
    THEN replaceMin(window, currPlayer)
    ELSE window

\* Variant of Admit: a full window takes every player, the comparison lost.
AdmitAlways(window, currPlayer) ==
    IF Len(window) < reporting_interval
    THEN LET pushed == Append(window, currPlayer)
         IN  make_heap(pushed, Len(pushed), TRUE)
    ELSE replaceMin(window, currPlayer)

\* The window after currPlayer has been handled (lines 168-174).
Admit(window, currPlayer) ==
    IF Len(window) < reporting_interval
    THEN LET pushed == Append(window, currPlayer)
         IN  make_heap(pushed, Len(pushed), TRUE)
    ELSE IF PlayerGreater(currPlayer, window[1])
    THEN replaceMin(window, currPlayer)
    ELSE window

\* Is a cutoff recorded after the count-th player (line 176).
RecordsCutoff(c, window) == c % reporting_interval = 0 /\ window # << >>

\* One iteration of while (stream.remaining() > 0).
RankIncomingLoop ==
    /\ pc = "loop"
    /\ remaining > 0
    /\ IF nextPlayerThrows
       THEN /\ pc' = "thrown"
            /\ lastCall' = Thrown
            /\ UNCHANGED << currIndex, count, topReportPlayers, cutoffs_ >>
       ELSE LET currPlayer == nextPlayerValue
                window     == Admit(topReportPlayers, currPlayer)
            IN  /\ currIndex' = nextPlayerIndex
                /\ lastCall' = Returned(currPlayer)
                /\ count' = count + 1
                /\ topReportPlayers' = window
                /\ cutoffs_' = IF RecordsCutoff(count + 1, window)
                               THEN PutCutoff(cutoffs_, count + 1, window[1].level_)
                               ELSE cutoffs_
                /\ pc' = "loop"
    /\ UNCHANGED << players_, reporting_interval, top_ >>
    /\ UNCHANGED << offlineVars, heapVars >>

\* The loop ends, the window is sorted and returned (lines 181-187).
RankIncomingReturn ==
    /\ pc = "loop"
    /\ ~(remaining > 0)
    /\ topReportPlayers' = sort(topReportPlayers)
    /\ top_' = topReportPlayers'
    /\ pc' = "returned"
    /\ UNCHANGED << players_, currIndex, lastCall, reporting_interval, count, cutoffs_ >>
    /\ UNCHANGED << offlineVars, heapVars >>

NoResult == [done |-> FALSE, top |-> << >>]

OfflineIdle == players = << >> /\ input = << >> /\ heapTop = NoResult /\ quickTop = NoResult
StreamIdle  == players_ = << >> /\ currIndex = 0 /\ lastCall = NoCall
OnlineIdle  == /\ reporting_interval = 1 /\ count = 0 /\ topReportPlayers = << >>
               /\ cutoffs_ = << >> /\ top_ = << >>
HeapIdle    == range = << >> /\ oldRange = << >> /\ target = NoPlayer

\* rankIncoming is entered with a fresh VectorPlayerStream over any vector.
InitOnline ==
    /\ pc = "loop"
    /\ \E levels \in SeqsUpTo(1..MaxLevel, MaxStream), ascending \in BOOLEAN :
           players_ = Named(levels, ascending)
    /\ currIndex = 0
    /\ lastCall = NoCall
    /\ reporting_interval \in 1..MaxInterval
    /\ count = 0
    /\ topReportPlayers = << >>
    /\ cutoffs_ = << >>
    /\ top_ = << >>
    /\ OfflineIdle /\ HeapIdle

NextOnline == RankIncomingLoop \/ RankIncomingReturn

SpecOnline == InitOnline /\ [][NextOnline]_vars

\* The loop is sequential code: it keeps running until it returns.
SpecOnlineFair == SpecOnline /\ WF_vars(NextOnline)


---------------------------------------------------------------------------
(* VectorPlayerStream used on its own: any caller, any number of calls     *)

\* A call of nextPlayer() (PlayerStream.cpp lines 8-14).
NextPlayerCall ==
    /\ pc = "stream"
    /\ lastCall' = IF nextPlayerThrows THEN Thrown ELSE Returned(nextPlayerValue)
    /\ currIndex' = nextPlayerIndex
    /\ UNCHANGED << pc, players_ >>
    /\ UNCHANGED << offlineVars, onlineVars, heapVars >>

InitStream ==
    /\ pc = "stream"
    /\ \E levels \in SeqsUpTo(1..MaxLevel, MaxStream), ascending \in BOOLEAN :
           players_ = Named(levels, ascending)
    /\ currIndex = 0
    /\ lastCall = NoCall
    /\ OfflineIdle /\ OnlineIdle /\ HeapIdle

NextStream == NextPlayerCall

SpecStream == InitStream /\ [][NextStream]_vars

---------------------------------------------------------------------------
(* Properties of Online::rankIncoming and VectorPlayerStream               *)

Min(a, b) == IF a <= b THEN a ELSE b

RemoveAt(s, i) == SubSeq(s, 1, i - 1) \o SubSeq(s, i + 1, Len(s))

\* The bag of the k largest numbers of the sequence s.
RECURSIVE LargestBag(_, _)
LargestBag(s, k) ==
    IF k = 0 \/ s = << >> THEN EmptyBag
    ELSE LET i == CHOOSE j \in 1..Len(s) : \A h \in 1..Len(s) : s[h] <= s[j]
         IN  SetToBag({s[i]}) (+) LargestBag(RemoveAt(s, i), k - 1)

Elements(s) == { s[i] : i \in 1..Len(s) }

\* C1: when rankIncoming has returned from a stream of n >= 1 players, the keys
\* of cutoffs_ are exactly the multiples of reporting_interval in 1..n together
\* with n itself, and cutoffs_[n] is the lowest level of the final window.
C1_CutoffKeysIncludeFinalCount ==
    (pc = "returned" /\ Len(players_) >= 1) =>
        LET n == Len(players_)
        IN  /\ DOMAIN cutoffs_ = { c \in 1..n : c % reporting_interval = 0 } \cup {n}
            /\ cutoffs_[n] = top_[1].level_

C7_CutoffsNonDecreasing ==
    \A c1, c2 \in DOMAIN cutoffs_ : c1 < c2 => cutoffs_[c1] <= cutoffs_[c2]

\* C7 witness: a returned call with three checkpoints, the cutoff rising
\* between two of them and staying equal between two others.
C7_Witness ==
    /\ pc = "returned"
    /\ Cardinality(DOMAIN cutoffs_) >= 3
    /\ \E c1, c2 \in DOMAIN cutoffs_ : c1 < c2 /\ cutoffs_[c1] < cutoffs_[c2]
    /\ \E c1, c2 \in DOMAIN cutoffs_ : c1 < c2 /\ cutoffs_[c1] = cutoffs_[c2]

\* C9: after every handled player the window holds at most reporting_interval
\* players and its first element has the lowest level in the window.
C9_WindowBoundedMinFirst ==
    /\ Len(topReportPlayers) <= reporting_interval
    /\ \A i \in 1..Len(topReportPlayers) :
           topReportPlayers[1].level_ <= topReportPlayers[i].level_

\* C9 witness: in the replaceMin phase, the incoming player was swapped in and
\* sifted below the root of a window of three.
C9_Witness ==
    /\ pc = "loop"
    /\ reporting_interval >= 3
    /\ count > reporting_interval
    /\ Len(topReportPlayers) = reporting_interval
    /\ lastCall.kind = "player"
    /\ lastCall.player \in Elements(topReportPlayers)
    /\ lastCall.player # topReportPlayers[1]

\* C10: rankIncoming returns; it never meets the exhaustion error; it has then
\* taken every player of the stream, one per iteration, and remaining() is 0.
C10_RankIncomingExhaustsStream ==
    /\ <>(pc = "returned")
    /\ [](pc # "thrown")
    /\ [](count = currIndex)
    /\ [](pc = "returned" => count = Len(players_) /\ remaining = 0)

\* C10 witness: a returned call that has taken at least three players.
C10_Witness ==
    /\ pc = "returned"
    /\ count >= 3
    /\ count = Len(players_)
    /\ remaining = 0

\* C8: a nextPlayer() call on a stream with remaining() = 0 ends in the error,
\* returns no player and leaves the stream as it was, remaining() still 0;
\* remaining() never exceeds the size of the vector.
C8_ExhaustedNextPlayerFails ==
    /\ [][remaining = 0 =>
            /\ lastCall'.kind = "error"
            /\ currIndex' = currIndex
            /\ players_' = players_
            /\ remaining' = 0]_vars
    /\ [](remaining <= Len(players_))

\* C8 witness: the call after the last of at least two successful calls failed.
C8_Witness ==
    /\ pc = "stream"
    /\ lastCall.kind = "error"
    /\ Len(players_) >= 2
    /\ currIndex = Len(players_)
    /\ remaining = 0

---------------------------------------------------------------------------
(* The offline rankers, called in either order on the caller's vector      *)

HeapRankCall ==
    /\ pc = "offline"
    /\ ~heapTop.done
    /\ LET r == heapRank(players)
       IN  /\ players' = r.players
           /\ heapTop' = [done |-> TRUE, top |-> r.top]
    /\ UNCHANGED << pc, input, quickTop >>
    /\ UNCHANGED << streamVars, onlineVars, heapVars >>

QuickSelectRankCall ==
    /\ pc = "offline"
    /\ ~quickTop.done
    /\ LET r == quickSelectRank(players)
       IN  /\ players' = r.players
           /\ quickTop' = [done |-> TRUE, top |-> r.top]
    /\ UNCHANGED << pc, input, heapTop >>
    /\ UNCHANGED << streamVars, onlineVars, heapVars >>

\* The level at position i (from 1) of the input with modulus m and stride a:
\* constant, rising, falling and scattered runs, with and without repeats.
PatternLevel(i, m, a) == ((a * (i - 1)) % m) + 1

InitOffline ==
    /\ pc = "offline"
    /\ \E n \in 0..MaxPlayers, m \in 1..MaxModulus, ascending \in BOOLEAN :
         \E a \in (-MaxStride)..MaxStride :
           players = Named([i \in 1..n |-> PatternLevel(i, m, a)], ascending)
    /\ input = players
    /\ heapTop = NoResult
    /\ quickTop = NoResult
    /\ StreamIdle /\ OnlineIdle /\ HeapIdle

NextOffline == HeapRankCall \/ QuickSelectRankCall

SpecOffline == InitOffline /\ [][NextOffline]_vars

---------------------------------------------------------------------------
(* Online::replaceMin called on its own, on any min-heap with any target   *)

\* replaceMin(first, last, target).  target is moved from; the model keeps the
\* value that was handed in.
ReplaceMinCall ==
    /\ pc = "heap"
    /\ range' = replaceMin(range, target)
    /\ pc' = "heapDone"
    /\ UNCHANGED << oldRange, target >>
    /\ UNCHANGED << offlineVars, streamVars, onlineVars >>

InitHeap ==
    /\ pc = "heap"
    /\ \E levels \in SeqsUpTo(1..MaxLevel, MaxHeap), ascending \in BOOLEAN :
           /\ Len(levels) >= 1
           /\ range = Named(levels, ascending)
    /\ IsMinHeap(range)
    /\ oldRange = range
    /\ \E name \in 0..(MaxHeap + 1), level \in 1..MaxLevel :
           target = Player(name, level)
    /\ OfflineIdle /\ StreamIdle /\ OnlineIdle

NextHeap == ReplaceMinCall

SpecHeap == InitHeap /\ [][NextHeap]_vars

---------------------------------------------------------------------------
(* Every entry point together                                              *)

Init == InitOffline \/ InitOnline \/ InitStream \/ InitHeap

Next ==
    \/ HeapRankCall
    \/ QuickSelectRankCall
    \/ RankIncomingLoop
    \/ RankIncomingReturn
    \/ NextPlayerCall
    \/ ReplaceMinCall

Spec == Init /\ [][Next]_vars

---------------------------------------------------------------------------
(* Properties of the offline rankers and of replaceMin                     *)

NonDecreasing(s) == \A i \in 1..(Len(s) - 1) : s[i].level_ <= s[i + 1].level_

\* The result r = [done, top] of an offline ranker is the top tenth of input.
IsTopTenth(r) ==
    r.done =>
        /\ Len(r.top) = Len(input) \div 10
        /\ BagOfSeq(LevelsOf(r.top)) = LargestBag(LevelsOf(input), Len(input) \div 10)

\* C2: heapRank and quickSelectRank each return floor(n / 10) players whose bag
\* of levels is the bag of the floor(n / 10) largest levels of the input.
C2_OfflineTopIsLargestTenth == IsTopTenth(heapTop) /\ IsTopTenth(quickTop)

\* C2 witness: both rankers have returned at least two players from an input
\* in which a player left out has the level of the lowest player selected.
C2_Witness ==
    /\ heapTop.done /\ quickTop.done
    /\ Len(heapTop.top) >= 2 /\ Len(quickTop.top) >= 2
    /\ heapTop.top[1].level_ < heapTop.top[Len(heapTop.top)].level_
    /\ \E i \in 1..Len(input) :
           /\ input[i] \notin Elements(heapTop.top)
           /\ input[i].level_ = heapTop.top[1].level_

\* C4: after replaceMin on a min-heap the range has its old size, is a min-heap
\* again, and holds the old contents less one copy of the old root plus target.
C4_ReplaceMinKeepsHeap ==
    pc = "heapDone" =>
        /\ Len(range) = Len(oldRange)
        /\ IsMinHeap(range)
        /\ BagOfSeq(range) = BagOfSeq(Tail(oldRange)) (+) SetToBag({target})

\* C4 witness: target was larger than both children of the root and sank to
\* the bottom of a heap two levels deep.
C4_Witness ==
    /\ pc = "heapDone"
    /\ Len(range) >= 4
    /\ target \notin Elements(oldRange)
    /\ range[4] = target
    /\ PlayerLess(oldRange[2], target) /\ PlayerLess(oldRange[3], target)

\* C5: the top returned by heapRank, by quickSelectRank and by rankIncoming is
\* non-decreasing by level.
C5_TopNonDecreasing ==
    /\ NonDecreasing(heapTop.top)
    /\ NonDecreasing(quickTop.top)
    /\ NonDecreasing(top_)

\* C5 witness: quickSelectRank has returned four players of at least three
\* different levels.
C5_Witness ==
    /\ quickTop.done
    /\ Len(quickTop.top) >= 4
    /\ Cardinality({ quickTop.top[i].level_ : i \in 1..Len(quickTop.top) }) >= 3

\* C6: once both offline rankers have run on the same players (the second on
\* the order the first left behind), their tops have the same bag of levels.
C6_OfflineRankersAgree ==
    (heapTop.done /\ quickTop.done) =>
        BagOfSeq(LevelsOf(heapTop.top)) = BagOfSeq(LevelsOf(quickTop.top))

\* C6 witness: both have returned at least two players, with equal levels at
\* the boundary, and they did not select the same players.
C6_Witness ==
    /\ heapTop.done /\ quickTop.done
    /\ Len(heapTop.top) >= 2
    /\ Elements(heapTop.top) # Elements(quickTop.top)
    /\ players # input

===========================================================================
